---- MODULE Spec2Model ----
(***************************************************************************)
(* A model of the eZ80 execution environment (src/src/environment.rs) and  *)
(* of the Agon machine with its host-filesystem trap layer                 *)
(* (src/src/agon_machine.rs).                                              *)
(*                                                                         *)
(* Bytes are 0..255, addresses and register values are naturals.  The      *)
(* emulated memory [u8; MEM_SIZE] is kept as the function of its non-zero  *)
(* cells: a cell outside the DOMAIN holds 0.                               *)
(***************************************************************************)
EXTENDS Integers, Sequences, FiniteSets, TLC

VARIABLES
    mem,                    \* AgonMachine.mem (non-zero cells)
    pc, SP, HL,             \* cpu.state: program counter, SP and HL registers
    adl, mbase,             \* cpu.state: long-mode flag and bank base register
    instructions_executed,  \* cpu.state.instructions_executed
    rx, rx_buf,             \* AgonMachine.rx (bytes in the channel), rx_buf
    vsync_counter,          \* the shared atomic counter
    last_vsync_count,       \* local of AgonMachine::start
    open_files, open_dirs,  \* AgonMachine handle tables
    enable_hostfs,          \* AgonMachine.enable_hostfs
    hostfs_current_dir,     \* AgonMachine.hostfs_current_dir (a PathBuf)
    hostfs,                 \* the host file system (std::fs), by absolute path
    phase,                  \* position of AgonMachine::start in its loop
    chk,                    \* index of the next `if` of the trap chain
    halted,                 \* the process has panicked
    sent, ticks,            \* bytes sent by the peripheral, timer increments
    bus,                    \* Machine::poke calls issued by the last operation
    last, prev,             \* the last two operations applied (history)
    lastTrap,               \* the last trap handler dispatched (history)
    iter,                   \* what happened in the current loop iteration (history)
    dirlog,                 \* per directory handle: what readdir has yielded (history)
    assoc,                  \* per file-structure address that was opened:
                            \* "open", or "closed" since (history)
    received,               \* the bytes that reads of the receive-data port
                            \* have taken from the buffer (history)
    vsyncs                  \* vsync interrupts injected so far (history)

cpuVars  == <<pc, SP, HL, adl, mbase, instructions_executed>>
ioVars   == <<rx, rx_buf, vsync_counter, last_vsync_count, sent, ticks>>
fsVars   == <<open_files, open_dirs, enable_hostfs, hostfs_current_dir, hostfs>>
loopVars == <<phase, chk, halted, lastTrap, iter>>
envVars  == <<bus, last, prev>>
histVars == <<dirlog, assoc, received, vsyncs>>
vars     == <<mem, cpuVars, ioVars, fsVars, loopVars, envVars, histVars>>

----------------------------------------------------------------------------
(* Program constants.                                                      *)

ROM_SIZE == 262144
RAM_SIZE == 524288
MEM_SIZE == ROM_SIZE + RAM_SIZE

U16 == 256 * 256
U24 == 256 * U16
\* 2^32: beyond the integers of the model checker, so an operation that would
\* wrap around the 32-bit range stops the check instead of going unnoticed.
U32 == 65536 * 65536

None    == <<>>
Some(b) == <<b>>

----------------------------------------------------------------------------
(* Integer helpers: casts and wrapping arithmetic of u8/u16/u32.           *)

as_u8(v)  == v % 256
as_u16(v) == v % U16

wrapping_sub(a, b) == IF a >= b THEN a - b ELSE (U32 - b) + a
wrapping_add(a, b) == IF a + b < 2147483647 THEN a + b ELSE (a + b) % U32

RECURSIVE xor(_, _)
xor(a, b) ==
    IF a = 0 THEN b
    ELSE IF b = 0 THEN a
    ELSE (((a % 2) + (b % 2)) % 2) + 2 * xor(a \div 2, b \div 2)

RECURSIVE bitand(_, _)
bitand(a, b) ==
    IF a = 0 \/ b = 0 THEN 0
    ELSE ((a % 2) * (b % 2)) + 2 * bitand(a \div 2, b \div 2)

----------------------------------------------------------------------------
(* AgonMachine memory: impl Machine for AgonMachine.                       *)

\* self.mem[address as usize] = value
Store(m, address, value) ==
    IF value = 0
    THEN [x \in (DOMAIN m) \ {address} |-> m[x]] @@ <<>>
    ELSE (address :> value) @@ m

\* self.mem[address as usize]
Load(m, address) == IF address \in DOMAIN m THEN m[address] ELSE 0

peek(m, address) ==
    IF address >= 786432 THEN 0 ELSE Load(m, address)

poke_unchecked(m, address, value) == Store(m, address, value)
poke_rom_writable(m, address, value) ==
    IF address >= 786432 THEN m ELSE Store(m, address, value)
poke(m, address, value) ==
    IF address >= 786432 \/ address < 262144 THEN m ELSE Store(m, address, value)

\* Machine::_peek24 and Machine::_poke24 (trait defaults): three bytes, least
\* significant first, at consecutive addresses.
_peek24(m, address) ==
    peek(m, address) + 256 * peek(m, address + 1) + 65536 * peek(m, address + 2)

_poke24(m, address, value) ==
    poke(poke(poke(m, address, as_u8(value)),
              address + 1, as_u8(value \div 256)),
         address + 2, as_u8(value \div 65536))

----------------------------------------------------------------------------
(* Environment (src/src/environment.rs).  An Environment borrows the cpu   *)
(* state and the machine; here it works on a record                        *)
(*   [mem, SP, pc, bus]                                                    *)
(* and reads the mode flags adl and mbase, which no operation changes.     *)

EnvRec(m, sp, p) == [mem |-> m, SP |-> sp, pc |-> p, bus |-> <<>>]

\* State::is_op_long: at an instruction boundary the operand size is the
\* ADL mode.
is_op_long == adl

\* Registers::set24 and Registers::set16 on SP: the register keeps 24 bits;
\* a 16-bit store replaces its low two bytes.
set24(old, value) == value % U24
set16(old, value) == (old \div U16) * U16 + as_u16(value)

\* Registers::get16_mbase: the 16-bit value under the bank base.
get16_mbase(reg) == mbase * U16 + as_u16(reg)

\* Registers::get24: the 24 bits of a register.
get24(reg) == reg % U24

\* Environment::index_value and Environment::index_address with the default
\* index (HL) selected, as it is at every instruction boundary: the branch of
\* index_address that adds the displacement is taken for an alternate index
\* only.
index_value == IF is_op_long THEN get24(HL) ELSE get16_mbase(HL)

index_address == IF is_op_long THEN get16_mbase(HL) ELSE get24(HL)

\* State::sp: the stack address the mode selects.
sp_of(st) == IF is_op_long THEN st.SP % U24 ELSE get16_mbase(st.SP)

wrap_address_long_only(address, increment) == wrapping_add(address, increment)
wrap_address(address, increment) ==
    IF is_op_long
    THEN wrapping_add(address, increment)
    ELSE bitand(address, 16711680) + as_u16(as_u16(address) + increment)

\* self.sys.poke(address, value), with the call recorded on the bus
sys_poke(st, address, value) ==
    [st EXCEPT !.mem = poke(@, address, value),
               !.bus = Append(@, <<address, value>>)]

sys_peek(st, address) == peek(st.mem, address)

peek16(st, address) ==
    sys_peek(st, address) + 256 * sys_peek(st, wrap_address(address, 1))

poke16(st, address, value) ==
    sys_poke(sys_poke(st, address, as_u8(value)),
             wrap_address(address, 1), as_u8(value \div 256))

peek24(st, address) ==
    sys_peek(st, address)
    + 256 * sys_peek(st, wrap_address(address, 1))
    + 65536 * sys_peek(st, wrap_address(address, 2))

poke24(st, address, value) ==
    sys_poke(sys_poke(sys_poke(st, address, as_u8(value)),
                      wrap_address(address, 1), as_u8(value \div 256)),
             wrap_address(address, 2), as_u8(value \div 65536))

push(st, value) ==
    LET sp0 == sp_of(st)
        u == as_u8(value \div 65536)
        h == as_u8(value \div 256)
        l == as_u8(value)
        sp1 == IF is_op_long THEN wrapping_sub(sp0, 1) ELSE sp0
        st1 == IF is_op_long THEN sys_poke(st, sp1, u) ELSE st
        sp2 == wrapping_sub(sp1, 1)
        st2 == sys_poke(st1, sp2, h)
        sp3 == wrapping_sub(sp2, 1)
        st3 == sys_poke(st2, sp3, l)
    IN  IF is_op_long
        THEN [st3 EXCEPT !.SP = set24(st.SP, sp3)]
        ELSE [st3 EXCEPT !.SP = set16(st.SP, as_u16(sp3))]

\* pop returns the state after the pop and the value popped
pop(st) ==
    LET sp0 == sp_of(st)
        l == sys_peek(st, sp0)
        sp1 == wrap_address(sp0, 1)
        h == sys_peek(st, sp1)
        sp2 == wrap_address(sp1, 1)
        u == IF is_op_long THEN sys_peek(st, sp2) ELSE 0
        sp3 == IF is_op_long THEN wrap_address(sp2, 1) ELSE sp2
    IN  [st |-> IF is_op_long
                THEN [st EXCEPT !.SP = set24(st.SP, sp3)]
                ELSE [st EXCEPT !.SP = set16(st.SP, as_u16(sp3))],
         value |-> l + 256 * h + 65536 * u]

subroutine_call(st, address) ==
    [push(st, st.pc) EXCEPT !.pc = address]

subroutine_return_unchecked(st) ==
    [st |-> [pop(st).st EXCEPT !.pc = pop(st).value], panic |-> FALSE]

\* subroutine_return: the state after the return, and whether it panicked
\* ("reset!": the popped program counter is zero)
subroutine_return(st) ==
    LET p == pop(st)
    IN  IF p.value = 0
        THEN [st |-> p.st, panic |-> TRUE]
        ELSE [st |-> [p.st EXCEPT !.pc = p.value], panic |-> FALSE]

\* Environment::interrupt: an implicit call of the vector
interrupt(st, vector) == subroutine_call(st, vector)

----------------------------------------------------------------------------
(* Memory tools (mod z80_mem_tools).                                       *)

memset_skipped(m, address, fill, count) == m

\* memset pokes fill at address, address + 1, ..., address + count - 1; the
\* result of that loop is given in closed form: the cells poke stores to
\* hold fill, the others are left.
memset(m, address, fill, count) ==
    LET stored == {a \in address..(address + count - 1) :
                      poke(<<>>, a, 1) # <<>>}
    IN  IF fill = 0
        THEN [x \in (DOMAIN m) \ stored |-> m[x]] @@ <<>>
        ELSE [x \in stored |-> fill] @@ m

RECURSIVE memcpy_to_z80(_, _, _)
memcpy_to_z80(m, start, data) ==
    IF data = <<>> THEN m
    ELSE memcpy_to_z80(poke(m, start, Head(data)), start + 1, Tail(data))

RECURSIVE get_cstring(_, _)
get_cstring(m, address) ==
    IF peek(m, address) = 0 THEN <<>>
    ELSE <<peek(m, address)>> \o get_cstring(m, address + 1)

\* the loop of checksum: i runs over start, start + 3, ... below the end
RECURSIVE checksum_from(_, _, _)
checksum_from(m, i, end) ==
    IF i >= end THEN 0
    ELSE xor(_peek24(m, i), checksum_from(m, i + 3, end))

checksum(m, start, len) == checksum_from(m, start, start + len)

----------------------------------------------------------------------------
(* Firmware images.  An image is a sequence of bytes; the ones used here   *)
(* hold a table of NUL-terminated path strings after a leading 24-bit word *)
(* that decides the checksum.                                              *)

Ch_slash == <<47>>
DotDot   == <<46, 46>>

MosStrings ==
    << <<102>>,                 \* "f"
       <<110>>,                 \* "n"
       <<100>>,                 \* "d"
       DotDot,                  \* ".."
       <<101>>,                 \* "e"
       <<120, 47, 110>>,        \* "x/n"
       <<46, 46, 47, 46, 46>>,  \* "../.."
       <<47, 102>>,             \* "/f"
       <<102, 32>>,             \* "f "
       <<100, 47, 103>> >>      \* "d/g"

RECURSIVE CStrings(_)
CStrings(strs) ==
    IF strs = <<>> THEN <<>>
    ELSE Head(strs) \o <<0>> \o CStrings(Tail(strs))

MosBody == CStrings(MosStrings)

\* load of an image into the low memory: self.mem[i] = *e for every byte of
\* the image, given in closed form
LoadImage(m, code) ==
    LET image == 0..(Len(code) - 1)
    IN  [a \in {x \in image : code[x + 1] # 0} |-> code[a + 1]]
        @@ [a \in (DOMAIN m) \ image |-> m[a]]

Word24(v) == <<v % 256, (v \div 256) % 256, v \div 65536>>

\* a build of the firmware with the supported checksum, and another build
MosSupported ==
    Word24(xor(12649176,
               checksum(LoadImage(<<>>, <<0, 0, 0>> \o MosBody), 0,
                        3 + Len(MosBody)))) \o MosBody
MosOther == <<1, 2, 3>> \o MosBody

\* the address of a string of the table in the loaded image
StrPtr(str) ==
    CHOOSE a \in 3..(2 + Len(MosBody)) :
        /\ a = 3 \/ MosSupported[a] = 0
        /\ \A k \in 1..Len(str) : MosSupported[a + k] = str[k]
        /\ MosSupported[a + Len(str) + 1] = 0

----------------------------------------------------------------------------
(* Host paths (std::path::PathBuf) and the host file system (std::fs).     *)
(* A path is [abs, segs]: whether it is absolute, and its components.  The *)
(* host file system maps the absolute, resolved path of every node to      *)
(* [dir, data].                                                            *)

RECURSIVE SplitPath(_, _)
\* the components of a path string: cur is the component being read
SplitPath(str, cur) ==
    IF str = <<>> THEN (IF cur = <<>> \/ cur = <<46>> THEN <<>> ELSE <<cur>>)
    ELSE IF Head(str) = 47
         THEN (IF cur = <<>> \/ cur = <<46>> THEN <<>> ELSE <<cur>>)
              \o SplitPath(Tail(str), <<>>)
         ELSE SplitPath(Tail(str), Append(cur, Head(str)))

PathOf(str) ==
    [abs |-> str # <<>> /\ Head(str) = 47, segs |-> SplitPath(str, <<>>)]

EmptyPath == [abs |-> FALSE, segs |-> <<>>]

\* PathBuf::join: an absolute argument replaces the path
PathJoin(p, q) ==
    IF q.abs THEN q ELSE [abs |-> p.abs, segs |-> p.segs \o q.segs]

\* PathBuf::pop: drop the last component, if there is one
PathPop(p) ==
    IF p.segs = <<>> THEN p
    ELSE [p EXCEPT !.segs = SubSeq(@, 1, Len(@) - 1)]

RECURSIVE trim_end(_)
trim_end(str) ==
    IF str # <<>> /\ str[Len(str)] = 32
    THEN trim_end(SubSeq(str, 1, Len(str) - 1))
    ELSE str

\* std::env::current_dir(): the working directory of the process, "/w"
current_dir == [abs |-> TRUE, segs |-> << <<119>> >>]

RECURSIVE Walk(_, _, _)
\* path resolution by the host: from directory cur along segs
Walk(fs, cur, segs) ==
    IF segs = <<>> THEN [err |-> "Ok", path |-> cur]
    ELSE IF ~fs[cur].dir THEN [err |-> "NotADirectory", path |-> cur]
    ELSE LET nxt == IF Head(segs) = DotDot
                    THEN (IF cur = <<>> THEN cur
                          ELSE SubSeq(cur, 1, Len(cur) - 1))
                    ELSE Append(cur, Head(segs))
         IN  IF nxt \notin DOMAIN fs
             THEN [err |-> "NotFound", path |-> nxt]
             ELSE Walk(fs, nxt, Tail(segs))

\* resolution of an absolute PathBuf
Resolve(fs, p) == Walk(fs, <<>>, p.segs)

\* std::fs::metadata
metadata(fs, p) ==
    LET r == Resolve(fs, p)
    IN  IF r.err = "Ok"
        THEN [err |-> "Ok", is_dir |-> fs[r.path].dir,
              len |-> IF fs[r.path].dir THEN 4096 ELSE Len(fs[r.path].data)]
        ELSE [err |-> r.err, is_dir |-> FALSE, len |-> 0]

\* the names in a directory
Children(fs, dir) ==
    {q[Len(q)] : q \in {x \in DOMAIN fs : Len(x) = Len(dir) + 1
                                          /\ SubSeq(x, 1, Len(dir)) = dir}}

\* std::fs::read_dir: an iterator over the entries of the directory
read_dir(fs, p) ==
    LET r == Resolve(fs, p)
    IN  IF r.err # "Ok" THEN [err |-> r.err]
        ELSE IF ~fs[r.path].dir THEN [err |-> "NotADirectory"]
        ELSE [err |-> "Ok",
              dir |-> [path |-> r.path, rest |-> Children(fs, r.path)]]

DirNode     == [dir |-> TRUE, data |-> <<>>]
File(bytes) == [dir |-> FALSE, data |-> bytes]

\* the host tree the runs start from:
\*   /w (working directory)   /w/f   /w/d/   /w/d/g   /w/d/h   /w/d/e/
HostTree ==
    (<<>> :> DirNode)
    @@ (<< <<119>> >> :> DirNode)
    @@ (<< <<119>>, <<102>> >> :> File(<<104, 105, 10>>))
    @@ (<< <<119>>, <<100>> >> :> DirNode)
    @@ (<< <<119>>, <<100>>, <<103>> >> :> File(<<120>>))
    @@ (<< <<119>>, <<100>>, <<104>> >> :> File(<<>>))
    @@ (<< <<119>>, <<100>>, <<101>> >> :> DirNode)

----------------------------------------------------------------------------
(* Bounds of the model.                                                    *)

MaxOps == 2        \* environment operations applied in SpecEnv

----------------------------------------------------------------------------
(* Values of the variables a specification leaves alone.                   *)

NoOp == [op |-> "none", addr |-> 0, val |-> 0, res |-> 0,
         sp |-> 0, long |-> FALSE, mb |-> 0]
NoTrap == [name |-> "none", entry |-> 0, sp |-> 0, ret |-> 0,
           a1 |-> 0, a2 |-> 0, a3 |-> 0]
NoIter == [irq |-> <<>>, traps |-> <<>>, rxPending |-> FALSE,
           vsyncChanged |-> FALSE, atCheck |-> 0]

IoIdle ==
    /\ rx = <<>> /\ rx_buf = None
    /\ vsync_counter = 0 /\ last_vsync_count = 0
    /\ sent = 0 /\ ticks = 0

FsIdle ==
    /\ open_files = <<>> /\ open_dirs = <<>>
    /\ enable_hostfs = TRUE
    /\ hostfs_current_dir = [abs |-> FALSE, segs |-> <<>>]
    /\ hostfs = <<>>

LoopIdle ==
    /\ phase = "env" /\ chk = 1 /\ halted = FALSE
    /\ lastTrap = NoTrap /\ iter = NoIter
    /\ dirlog = <<>> /\ assoc = <<>> /\ received = <<>>
    /\ vsyncs = 0

----------------------------------------------------------------------------
(* SpecEnv: the operations of Environment and of the machine's memory,     *)
(* applied to inputs drawn from bounded sets.                              *)

\* a firmware image with distinct bytes around two bank boundaries
EnvImage == (131070 :> 16) @@ (131071 :> 17) @@ (65536 :> 34) @@ (65537 :> 35)
            @@ (131072 :> 51) @@ (131073 :> 52) @@ (262143 :> 68)

EnvByteAddrs == {262143, 262144, 786431, 786432, 16777215}
EnvBytes     == {0, 171}
EnvWordAddrs == {131071, 393215, 16777215}
EnvTripAddrs == {131070, 393215}
EnvSPs       == {327681, 327696, 262146}
EnvStackVals == {4660, 1193046}
EnvHLs       == {5 * U16 + 4660, 1193046}

InitEnv ==
    /\ mem = EnvImage
    /\ pc = 0 /\ HL \in EnvHLs
    /\ SP \in EnvSPs
    /\ adl \in BOOLEAN
    /\ mbase \in {5, 11}
    /\ instructions_executed = 0
    /\ IoIdle /\ FsIdle /\ LoopIdle
    /\ bus = <<>> /\ last = NoOp /\ prev = NoOp

Op(name, address, value, result) ==
    [op |-> name, addr |-> address, val |-> value, res |-> result,
     sp |-> SP, long |-> is_op_long, mb |-> mbase]

\* the frame of every SpecEnv action
EnvStep(st, o) ==
    /\ instructions_executed < MaxOps
    /\ instructions_executed' = instructions_executed + 1
    /\ mem' = st.mem /\ SP' = st.SP /\ pc' = st.pc /\ bus' = st.bus
    /\ last' = o /\ prev' = last
    /\ UNCHANGED <<HL, adl, mbase, ioVars, fsVars, loopVars, histVars>>

EnvHere == EnvRec(mem, SP, pc)

EnvPoke ==
    \E a \in EnvByteAddrs, v \in EnvBytes :
        EnvStep(sys_poke(EnvHere, a, v), Op("poke", a, v, 0))

EnvPeek ==
    \E a \in EnvByteAddrs :
        EnvStep(EnvHere, Op("peek", a, 0, sys_peek(EnvHere, a)))

EnvPoke16 ==
    \E a \in EnvWordAddrs :
        EnvStep(poke16(EnvHere, a, 4660), Op("poke16", a, 4660, 0))

EnvPeek16 ==
    \E a \in EnvWordAddrs :
        EnvStep(EnvHere, Op("peek16", a, 0, peek16(EnvHere, a)))

EnvPoke24 ==
    \E a \in EnvTripAddrs :
        EnvStep(poke24(EnvHere, a, 1193046), Op("poke24", a, 1193046, 0))

EnvPeek24 ==
    \E a \in EnvTripAddrs :
        EnvStep(EnvHere, Op("peek24", a, 0, peek24(EnvHere, a)))

EnvPush ==
    \E v \in EnvStackVals :
        EnvStep(push(EnvHere, v), Op("push", sp_of(EnvHere), v, 0))

EnvPop ==
    LET p == pop(EnvHere)
    IN  EnvStep(p.st, Op("pop", sp_of(EnvHere), 0, p.value))

EnvIndexValue ==
    EnvStep(EnvHere, Op("index_value", 0, 0, index_value))

EnvIndexAddress ==
    EnvStep(EnvHere, Op("index_address", 0, 0, index_address))

NextEnv ==
    \/ EnvPoke \/ EnvPeek
    \/ EnvPoke16 \/ EnvPeek16
    \/ EnvPoke24 \/ EnvPeek24
    \/ EnvPush \/ EnvPop
    \/ EnvIndexValue \/ EnvIndexAddress

SpecEnv == InitEnv /\ [][NextEnv]_vars

----------------------------------------------------------------------------
(* SpecSum: z80_mem_tools::checksum applied to ranges of a memory whose    *)
(* bytes are drawn from a small set.                                       *)

MaxSums == 2    \* checksums computed in SpecSum

SumA == 4 * U16 + 16    \* two ranges, in different banks
SumB == 5 * U16 + 16
SumBytes == {0, 7}
SumLens == 0..4

InitSum ==
    /\ \E a \in [0..3 -> SumBytes], b \in [0..3 -> SumBytes] :
          mem = [x \in {SumA + i : i \in {j \in 0..3 : a[j] # 0}}
                        \cup {SumB + i : i \in {j \in 0..3 : b[j] # 0}} |->
                   7]
    /\ pc = 0 /\ HL = 0 /\ SP = 0
    /\ adl = TRUE /\ mbase = 0
    /\ instructions_executed = 0
    /\ IoIdle /\ FsIdle /\ LoopIdle
    /\ bus = <<>> /\ last = NoOp /\ prev = NoOp

SumChecksum ==
    /\ instructions_executed < MaxSums
    /\ \E a \in {SumA, SumB}, len \in SumLens :
          last' = Op("checksum", a, len, checksum(mem, a, len))
    /\ prev' = last
    /\ instructions_executed' = instructions_executed + 1
    /\ UNCHANGED <<mem, pc, SP, HL, adl, mbase, ioVars, fsVars, loopVars,
                   bus, histVars>>

NextSum == SumChecksum

SpecSum == InitSum /\ [][NextSum]_vars

----------------------------------------------------------------------------
(* The trap table (MOS_103_MAP) and the frame of a trapped call.           *)

f_chdir    == 33458
f_chdrive  == 33402
f_close    == 33323
f_closedir == 35675
f_getcwd   == 33649
f_getfree  == 36072
f_getlabel == 38934
f_gets     == 40081
f_lseek    == 34320
f_mkdir    == 37622
f_mount    == 29431
f_open     == 29580
f_opendir  == 35410
f_printf   == 40721
f_putc     == 40590
f_puts     == 40644
f_read     == 30814
f_readdir  == 35730
f_rename   == 38241
f_setlabel == 39387
f_stat     == 35925
f_sync     == 33045
f_truncate == 36728
f_unlink   == 37146
f_write    == 31760

\* the entries in the order AgonMachine::start tests them
TrapChain ==
    <<f_close, f_gets, f_read, f_open, f_write, f_chdir, f_chdrive,
      f_closedir, f_getcwd, f_getfree, f_getlabel, f_lseek, f_mkdir,
      f_mount, f_opendir, f_printf, f_putc, f_puts, f_readdir, f_rename,
      f_setlabel, f_stat, f_sync, f_truncate, f_unlink>>

\* the entries that have a handler
Handled ==
    {f_close, f_gets, f_read, f_open, f_write, f_chdir, f_closedir,
     f_getlabel, f_mount, f_opendir, f_readdir}

ChainIndex(entry) == CHOOSE i \in 1..Len(TrapChain) : TrapChain[i] = entry

\* mos:: structure layouts
SIZEOF_MOS_FIL_STRUCT         == 36
FIL_MEMBER_OBJSIZE            == 11
FIL_MEMBER_FPTR               == 17
SIZEOF_MOS_FILINFO_STRUCT     == 278
FILINFO_MEMBER_FSIZE_U32      == 0
FILINFO_MEMBER_FATTRIB_U8     == 8
FILINFO_MEMBER_FNAME_256BYTES == 22
FA_WRITE                      == 2
FA_CREATE_NEW                 == 4

\* self._peek24(cpu.state.sp() + 3 * k): the k-th argument of the call
Arg(k) == _peek24(mem, sp_of(EnvRec(mem, SP, pc)) + 3 * k)

\* the return address on top of the stack
TopOfStack == pop(EnvRec(mem, SP, pc)).value

TrapMatched_unguarded(entry) ==
    /\ phase = "trap" /\ ~halted
    /\ pc = entry
    /\ chk <= ChainIndex(entry)

\* the test `if cpu.state.pc() == MOS_103_MAP.<entry>` succeeding, in its
\* place in the chain
TrapMatched(entry) ==
    /\ phase = "trap" /\ ~halted
    /\ enable_hostfs
    /\ pc = entry
    /\ chk <= ChainIndex(entry)

\* the end of every handler: HL is set, the forced return is made and the chain
\* goes on with the next test.  m is the memory the handler leaves.
TrapReturn(name, entry, m, hl) ==
    LET r == subroutine_return(EnvRec(m, SP, pc))
    IN  /\ HL' = set24(HL, hl)
        /\ mem' = r.st.mem /\ SP' = r.st.SP /\ pc' = r.st.pc
        /\ halted' = r.panic
        /\ chk' = ChainIndex(entry) + 1
        /\ phase' = "trap"
        /\ lastTrap' = [name |-> name, entry |-> entry, sp |-> SP,
                        ret |-> TopOfStack,
                        a1 |-> Arg(1), a2 |-> Arg(2), a3 |-> Arg(3)]
        /\ iter' = [iter EXCEPT !.traps =
                        Append(@, [entry |-> entry, sp |-> SP,
                                   ret |-> TopOfStack])]
        /\ UNCHANGED <<adl, mbase, instructions_executed, ioVars, envVars>>

\* handle tables: HashMap::insert and HashMap::remove
MapInsert(map, key, value) == (key :> value) @@ map
MapRemove(map, key) == [k \in (DOMAIN map) \ {key} |-> map[k]]

\* AgonMachine::hostfs_path
hostfs_path == PathJoin(current_dir, hostfs_current_dir)

\* the code for an io::Error the handlers return in HL
ErrorCode(err) == IF err = "NotFound" THEN 4 ELSE 1

\* a panic of the host program (an unwrap of an error): the emulator stops
Panic ==
    /\ halted' = TRUE
    /\ UNCHANGED <<mem, cpuVars, ioVars, fsVars, phase, chk, lastTrap, iter,
                   envVars, histVars>>

----------------------------------------------------------------------------
(* File traps.  An open file is [path, pos, write]: the node of the host   *)
(* file system it is open on, the position of the descriptor, and whether  *)
(* it was opened for writing.                                              *)

Min(a, b) == IF a < b THEN a ELSE b

\* OpenOptions::read(true).write(write).create(create).open(p): the error
\* kind, the node opened and the host file system afterwards
HostOpen(fs, p, write, create) ==
    LET r == Resolve(fs, p)
        parent == Resolve(fs, PathPop(p))
        last_missing ==
            /\ r.err = "NotFound" /\ p.segs # <<>>
            /\ p.segs[Len(p.segs)] # DotDot
            /\ parent.err = "Ok" /\ fs[parent.path].dir
    IN  IF create /\ ~write
        THEN [err |-> "InvalidInput", path |-> <<>>, fs |-> fs]
        ELSE IF r.err = "Ok"
        THEN (IF fs[r.path].dir /\ write
              THEN [err |-> "IsADirectory", path |-> <<>>, fs |-> fs]
              ELSE [err |-> "Ok", path |-> r.path, fs |-> fs])
        ELSE IF last_missing /\ create
        THEN [err |-> "Ok", path |-> r.path,
              fs |-> (r.path :> File(<<>>)) @@ fs]
        ELSE [err |-> r.err, path |-> <<>>, fs |-> fs]

\* the path hostfs_mos_f_open opens
open_path(filename) ==
    IF filename # <<>> /\ Head(filename) = 47
    THEN PathJoin(current_dir, PathOf(trim_end(Tail(filename))))
    ELSE PathJoin(hostfs_path, PathOf(trim_end(filename)))

\* file_len.min(1<<19)
open_file_len(len) == Min(len, 8 * U16)

\* .create(mode & mos::FA_CREATE_NEW != 0)
open_create(mode) == bitand(mode, FA_CREATE_NEW) # 0

hostfs_mos_f_open ==
    /\ TrapMatched(f_open)
    /\ LET fptr == Arg(1)
           filename == get_cstring(mem, Arg(2))
           mode == Arg(3)
           write == bitand(mode, FA_WRITE) # 0
           o == HostOpen(hostfs, open_path(filename), write,
                         open_create(mode))
           file_len == IF o.err = "Ok" /\ ~o.fs[o.path].dir
                       THEN open_file_len(Len(o.fs[o.path].data))
                       ELSE 0
           m1 == memset(mem, fptr, 0, SIZEOF_MOS_FIL_STRUCT)
           m2 == _poke24(m1, fptr + FIL_MEMBER_OBJSIZE, file_len)
       IN  IF o.err = "Ok"
           THEN /\ hostfs' = o.fs
                /\ open_files' = MapInsert(open_files, fptr,
                                     [path |-> o.path, pos |-> 0,
                                      write |-> write])
                /\ TrapReturn("open", f_open, m2, 0)
           ELSE /\ hostfs' = hostfs
                /\ open_files' = open_files
                /\ TrapReturn("open", f_open, mem, ErrorCode(o.err))
    /\ assoc' = IF HL' = 0 THEN MapInsert(assoc, Arg(1), "open") ELSE assoc
    /\ UNCHANGED <<open_dirs, enable_hostfs, hostfs_current_dir, dirlog,
                   received, vsyncs>>

close_keeps_handle(files, fptr) == files

store_fpos_skipped(m, fptr, fpos) == m

\* self._poke24(fptr + mos::FIL_MEMBER_FPTR, fpos as u32)
store_fpos(m, fptr, fpos) == _poke24(m, fptr + FIL_MEMBER_FPTR, fpos % U24)

\* self.open_files.remove(&fptr)
close_remove(files, fptr) == MapRemove(files, fptr)

hostfs_mos_f_close ==
    /\ TrapMatched(f_close)
    /\ open_files' = close_remove(open_files, Arg(1))
    /\ TrapReturn("close", f_close, mem, 0)
    /\ assoc' = IF Arg(1) \in DOMAIN assoc
                THEN MapInsert(assoc, Arg(1), "closed")
                ELSE assoc
    /\ UNCHANGED <<open_dirs, enable_hostfs, hostfs_current_dir, hostfs,
                   dirlog, received, vsyncs>>

\* f.read(host_buf): the bytes read from the position of the descriptor
HostRead(fs, f, len) ==
    LET data == fs[f.path].data
        n == IF f.pos >= Len(data) THEN 0 ELSE Min(len, Len(data) - f.pos)
    IN  SubSeq(data, f.pos + 1, f.pos + n)

hostfs_mos_f_read ==
    /\ TrapMatched(f_read)
    /\ LET fptr == Arg(1)
           buf == Arg(2)
           len == Arg(3)
       IN  IF fptr \in DOMAIN open_files
           THEN LET f == open_files[fptr]
                    got == HostRead(hostfs, f, len)
                    host_buf == [i \in 1..len |->
                                   IF i <= Len(got) THEN got[i] ELSE 0]
                    fpos == f.pos + Len(got)
                    m1 == memcpy_to_z80(mem, buf, host_buf)
                    m2 == store_fpos(m1, fptr, fpos)
                IN  IF hostfs[f.path].dir
                    THEN Panic
                    ELSE /\ open_files' = [open_files EXCEPT
                                              ![fptr].pos = fpos]
                         /\ TrapReturn("read", f_read, m2, 0)
                         /\ UNCHANGED <<open_dirs, enable_hostfs,
                                        hostfs_current_dir, hostfs, histVars>>
           ELSE /\ TrapReturn("read", f_read, mem, 1)
                /\ UNCHANGED <<fsVars, histVars>>

RECURSIVE gets_line(_, _, _, _, _)
\* the loop of hostfs_mos_f_gets: count iterations are left, host_buf is the
\* one-byte buffer (a read at the end of the file leaves it as it was), line
\* is what has been collected.  Gives the line and the position reached.
gets_line(data, pos, count, host_buf, line) ==
    IF count = 0 THEN [line |-> line, pos |-> pos]
    ELSE LET eof == pos >= Len(data)
             b == IF eof THEN host_buf ELSE data[pos + 1]
             npos == IF eof THEN pos ELSE pos + 1
         IN  IF b = 10 \/ b = 0
             THEN [line |-> Append(line, b), pos |-> npos]
             ELSE gets_line(data, npos, count - 1, b, Append(line, b))

hostfs_mos_f_gets ==
    /\ TrapMatched(f_gets)
    /\ LET buf == Arg(1)
           max_len == Arg(2)
           fptr == Arg(3)
       IN  IF fptr \in DOMAIN open_files
           THEN LET f == open_files[fptr]
                    g == gets_line(hostfs[f.path].data, f.pos, max_len, 0,
                                   <<>>)
                    m1 == store_fpos(mem, fptr, g.pos)
                    m2 == memcpy_to_z80(m1, buf, g.line)
                    m3 == poke(m2, buf + Len(g.line), 0)
                IN  IF hostfs[f.path].dir /\ max_len > 0
                    THEN Panic
                    ELSE /\ open_files' = [open_files EXCEPT
                                              ![fptr].pos = g.pos]
                         /\ TrapReturn("gets", f_gets, m3, 0)
                         /\ UNCHANGED <<open_dirs, enable_hostfs,
                                        hostfs_current_dir, hostfs, histVars>>
           ELSE /\ TrapReturn("gets", f_gets, mem, 1)
                /\ UNCHANGED <<fsVars, histVars>>

\* the bytes of a file after bytes are written at position pos
HostWrite(data, pos, bytes) ==
    SubSeq(data, 1, pos) \o bytes
        \o SubSeq(data, pos + Len(bytes) + 1, Len(data))

hostfs_mos_f_write ==
    /\ TrapMatched(f_write)
    /\ LET fptr == Arg(1)
           buf == Arg(2)
           num == Arg(3)
           num_written_ptr == Arg(3)
       IN  IF fptr \in DOMAIN open_files
           THEN LET f == open_files[fptr]
                    bytes == [i \in 1..num |-> peek(mem, buf + i - 1)]
                    fpos == f.pos + num
                    m1 == store_fpos(mem, fptr, fpos)
                    m2 == _poke24(m1, num_written_ptr, num)
                IN  IF num > 0 /\ ~f.write
                    THEN \* f.write(..).unwrap() on a file not open for writing
                         Panic
                    ELSE /\ hostfs' = IF num = 0 THEN hostfs
                                      ELSE [hostfs EXCEPT ![f.path].data =
                                              HostWrite(@, f.pos, bytes)]
                         /\ open_files' = [open_files EXCEPT
                                              ![fptr].pos = fpos]
                         /\ TrapReturn("write", f_write, m2, 0)
                         /\ UNCHANGED <<open_dirs, enable_hostfs,
                                        hostfs_current_dir, histVars>>
           ELSE /\ TrapReturn("write", f_write, mem, 1)
                /\ UNCHANGED <<fsVars, histVars>>

----------------------------------------------------------------------------
(* Directory traps.                                                        *)

\* the value of HL at the end of hostfs_mos_f_opendir: the match on the
\* result sets it to 0, 4 or 1, and the statement after the match sets it to 0
opendir_result(err) == 0

\* History of a directory handle, read off the guest's side: the entries the
\* directory had when it was opened, the number of readdir traps since, the
\* names they left in the file-info structure, whether each of the first
\* Cardinality(entries) traps returned 0 with a non-empty name, whether each
\* later one returned 0 with a zeroed structure, and whether the host
\* answered every step with a readable entry.
FreshLog(entries) ==
    [entries |-> entries, calls |-> 0, names |-> {}, ok |-> TRUE,
     tailOk |-> TRUE, clean |-> TRUE]

Zeroed(m, address, count) ==
    \A a \in address..(address + count - 1) : Load(m, a) = 0

LogReaddir(log, dir_ptr, info, hl, m, healthy) ==
    IF dir_ptr \notin DOMAIN log THEN log
    ELSE LET l == log[dir_ptr]
             name == get_cstring(m, info + FILINFO_MEMBER_FNAME_256BYTES)
             first == l.calls < Cardinality(l.entries)
         IN  [log EXCEPT ![dir_ptr] =
                [entries |-> l.entries,
                 calls |-> l.calls + 1,
                 names |-> IF first THEN l.names \cup {name} ELSE l.names,
                 ok |-> l.ok /\ (first => (hl = 0 /\ name # <<>>)),
                 tailOk |-> l.tailOk
                            /\ (~first => (hl = 0 /\ Zeroed(m, info,
                                               SIZEOF_MOS_FILINFO_STRUCT))),
                 clean |-> l.clean /\ healthy]]

hostfs_mos_f_opendir ==
    /\ TrapMatched(f_opendir)
    /\ LET dir_ptr == Arg(1)
           path == get_cstring(mem, Arg(2))
           d == read_dir(hostfs, PathJoin(hostfs_path, PathOf(path)))
       IN  /\ open_dirs' = IF d.err = "Ok"
                           THEN MapInsert(open_dirs, dir_ptr, d.dir)
                           ELSE open_dirs
           /\ dirlog' = IF d.err = "Ok"
                        THEN MapInsert(dirlog, dir_ptr, FreshLog(d.dir.rest))
                        ELSE dirlog
           /\ TrapReturn("opendir", f_opendir, mem, opendir_result(d.err))
    /\ UNCHANGED <<open_files, enable_hostfs, hostfs_current_dir, hostfs,
                   assoc, received, vsyncs>>

hostfs_mos_f_closedir ==
    /\ TrapMatched(f_closedir)
    /\ open_dirs' = MapRemove(open_dirs, Arg(1))
    /\ dirlog' = MapRemove(dirlog, Arg(1))
    /\ TrapReturn("closedir", f_closedir, mem, 0)
    /\ UNCHANGED <<open_files, enable_hostfs, hostfs_current_dir, hostfs,
                   assoc, received, vsyncs>>

MetadataError == <<60, 101, 114, 114, 111, 114, 32, 114, 101, 97, 100, 105,
                   110, 103, 32, 102, 105, 108, 101, 32, 109, 101, 116, 97,
                   100, 97, 116, 97, 62>>

readdir_entry_unnamed(m, file_info_ptr, name, md) ==
    _poke24(m, file_info_ptr + FILINFO_MEMBER_FSIZE_U32, md.len % U24)

\* the FILINFO structure written for an entry whose metadata was read
readdir_entry(m, file_info_ptr, name, md) ==
    LET m1 == memcpy_to_z80(m, file_info_ptr + FILINFO_MEMBER_FNAME_256BYTES,
                            name)
        m2 == _poke24(m1, file_info_ptr + FILINFO_MEMBER_FSIZE_U32,
                      md.len % U24)
        m3 == poke(m2, file_info_ptr + FILINFO_MEMBER_FSIZE_U32 + 3,
                   as_u8(md.len \div U24))
    IN  IF md.is_dir
        THEN poke(m3, file_info_ptr + FILINFO_MEMBER_FATTRIB_U8, 16)
        ELSE m3

\* what the host answers to one step of a directory iterator: an entry, an
\* entry whose metadata cannot be read (a dangling link, a file removed
\* since), an entry whose name is not valid UTF-8, or an error
HostAnswers == {"entry", "no_metadata", "bad_name", "error"}

hostfs_mos_f_readdir ==
    /\ TrapMatched(f_readdir)
    /\ LET dir_ptr == Arg(1)
           file_info_ptr == Arg(2)
           m0 == memset(mem, file_info_ptr, 0, SIZEOF_MOS_FILINFO_STRUCT)
       IN  IF dir_ptr \in DOMAIN open_dirs
           THEN LET dir == open_dirs[dir_ptr]
                IN  IF dir.rest = {}
                    THEN \* None: the directory has been read to the end
                         /\ open_dirs' = open_dirs
                         /\ TrapReturn("readdir", f_readdir, m0, 0)
                         /\ dirlog' = LogReaddir(dirlog, dir_ptr,
                                          file_info_ptr, HL', mem', TRUE)
                    ELSE \E name \in dir.rest, answer \in HostAnswers :
                         LET md == metadata(hostfs,
                                     [abs |-> TRUE,
                                      segs |-> Append(dir.path, name)])
                             taken == [open_dirs EXCEPT ![dir_ptr].rest =
                                                            @ \ {name}]
                         IN  IF answer = "error"
                             THEN /\ open_dirs' = open_dirs
                                  /\ TrapReturn("readdir", f_readdir, m0, 1)
                                  /\ dirlog' = LogReaddir(dirlog, dir_ptr,
                                          file_info_ptr, HL', mem', FALSE)
                             ELSE IF answer = "bad_name" /\ md.err = "Ok"
                             THEN \* to_str().unwrap() on the name
                                  Panic
                             ELSE IF answer = "entry" /\ md.err = "Ok"
                             THEN /\ open_dirs' = taken
                                  /\ TrapReturn("readdir", f_readdir,
                                        readdir_entry(m0, file_info_ptr,
                                                      name, md), 0)
                                  /\ dirlog' = LogReaddir(dirlog, dir_ptr,
                                          file_info_ptr, HL', mem', TRUE)
                             ELSE /\ open_dirs' = taken
                                  /\ TrapReturn("readdir", f_readdir,
                                        memcpy_to_z80(m0, file_info_ptr
                                            + FILINFO_MEMBER_FNAME_256BYTES,
                                            MetadataError), 0)
                                  /\ dirlog' = LogReaddir(dirlog, dir_ptr,
                                          file_info_ptr, HL', mem', FALSE)
           ELSE /\ open_dirs' = open_dirs
                /\ TrapReturn("readdir", f_readdir, m0, 1)
                /\ dirlog' = dirlog
    /\ UNCHANGED <<open_files, enable_hostfs, hostfs_current_dir, hostfs,
                   assoc, received, vsyncs>>

chdir_keeps_segment(cd_to) ==
    IF cd_to = DotDot THEN hostfs_current_dir
    ELSE PathJoin(hostfs_current_dir, PathOf(cd_to))

\* the path hostfs_mos_f_chdir builds from its argument
chdir_new_path(cd_to) ==
    IF cd_to = DotDot THEN PathPop(hostfs_current_dir)
    ELSE PathJoin(hostfs_current_dir, PathOf(cd_to))

\* the directory hostfs_mos_f_chdir leaves
chdir_commit(md, new_path) ==
    IF md.err = "Ok" /\ md.is_dir THEN new_path ELSE hostfs_current_dir

hostfs_mos_f_chdir ==
    /\ TrapMatched(f_chdir)
    /\ LET cd_to == get_cstring(mem, Arg(1))
           new_path == chdir_new_path(cd_to)
           md == metadata(hostfs, PathJoin(current_dir, new_path))
       IN  /\ hostfs_current_dir' = chdir_commit(md, new_path)
           /\ TrapReturn("chdir", f_chdir, mem,
                         IF md.err = "Ok"
                         THEN (IF md.is_dir THEN 0 ELSE 1)
                         ELSE ErrorCode(md.err))
    /\ UNCHANGED <<open_files, open_dirs, enable_hostfs, hostfs, histVars>>

hostfs_mos_f_mount ==
    /\ TrapMatched(f_mount)
    /\ TrapReturn("mount", f_mount, mem, 0)
    /\ UNCHANGED <<fsVars, histVars>>

hostfs_mos_f_getlabel ==
    /\ TrapMatched(f_getlabel)
    /\ TrapReturn("getlabel", f_getlabel,
                  poke(memcpy_to_z80(mem, Arg(2),
                                     <<104, 111, 115, 116, 102, 115>>),
                       Arg(2) + 6, 0),
                  0)
    /\ UNCHANGED <<fsVars, histVars>>

----------------------------------------------------------------------------
(* AgonMachine::start: the load of the firmware and the main loop.         *)

Images == {MosSupported, MosOther}

\* the state after AgonMachine::new and Cpu::new_ez80
InitLoop ==
    /\ mem = <<>>
    /\ pc = 0 /\ HL = 0 /\ SP = 65535
    /\ adl = TRUE /\ mbase = 0
    /\ instructions_executed = 0
    /\ IoIdle
    /\ open_files = <<>> /\ open_dirs = <<>>
    /\ enable_hostfs = TRUE
    /\ hostfs_current_dir = EmptyPath
    /\ hostfs = HostTree
    /\ phase = "load" /\ chk = 1 /\ halted = FALSE
    /\ lastTrap = NoTrap /\ iter = NoIter
    /\ dirlog = <<>> /\ assoc = <<>> /\ received = <<>>
    /\ vsyncs = 0
    /\ bus = <<>> /\ last = NoOp /\ prev = NoOp

load_mos(images) ==
    /\ phase = "load"
    /\ \E code \in images :
        LET m == LoadImage(mem, code)
        IN  /\ mem' = m
            /\ enable_hostfs' = (checksum(m, 0, Len(code)) = 12649176)
    /\ pc' = 0
    /\ phase' = "uart"
    /\ UNCHANGED <<SP, HL, adl, mbase, instructions_executed, ioVars,
                   open_files, open_dirs, hostfs_current_dir, hostfs,
                   chk, halted, lastTrap, iter, envVars, histVars>>

\* AgonMachine::maybe_fill_rx_buf: the buffer and the channel it leaves
maybe_fill_rx_buf ==
    IF rx_buf = None /\ rx # <<>>
    THEN [buf |-> Some(Head(rx)), chan |-> Tail(rx)]
    ELSE [buf |-> rx_buf, chan |-> rx]

LoadMos == load_mos(Images)

uart_poll_always(count) == TRUE

\* cpu.state.instructions_executed % 1024 == 0
uart_poll_due(count) == count % 1024 = 0

\* "fire uart interrupt"
PollUart ==
    /\ phase = "uart" /\ ~halted
    /\ LET polled == uart_poll_due(instructions_executed)
           f == maybe_fill_rx_buf
           fire == polled /\ f.buf # None
           st == IF fire THEN interrupt(EnvRec(mem, SP, pc), 24)
                 ELSE EnvRec(mem, SP, pc)
       IN  /\ rx_buf' = IF polled THEN f.buf ELSE rx_buf
           /\ rx' = IF polled THEN f.chan ELSE rx
           /\ mem' = st.mem /\ SP' = st.SP /\ pc' = st.pc
           /\ iter' = [iter EXCEPT
                         !.irq = IF fire THEN Append(@, 24) ELSE @,
                         !.rxPending = (rx_buf # None \/ rx # <<>>)]
    /\ phase' = "vsync"
    /\ UNCHANGED <<HL, adl, mbase, instructions_executed, vsync_counter,
                   last_vsync_count, sent, ticks, fsVars, chk, halted,
                   lastTrap, envVars, histVars>>

\* "fire vsync interrupt"
vsync_always(cur_vsync_count) == TRUE

\* cur_vsync_count != last_vsync_count
vsync_due(cur_vsync_count) == cur_vsync_count # last_vsync_count

PollVsync ==
    /\ phase = "vsync" /\ ~halted
    /\ LET cur_vsync_count == vsync_counter
           fire == vsync_due(cur_vsync_count)
           st == IF fire THEN interrupt(EnvRec(mem, SP, pc), 50)
                 ELSE EnvRec(mem, SP, pc)
       IN  /\ last_vsync_count' = cur_vsync_count
           /\ mem' = st.mem /\ SP' = st.SP /\ pc' = st.pc
           /\ iter' = [iter EXCEPT
                         !.irq = IF fire THEN Append(@, 50) ELSE @,
                         !.vsyncChanged = fire,
                         !.atCheck = st.pc]
           /\ vsyncs' = IF fire THEN vsyncs + 1 ELSE vsyncs
    /\ phase' = "trap"
    /\ UNCHANGED <<HL, adl, mbase, instructions_executed, rx, rx_buf,
                   vsync_counter, sent, ticks, fsVars, chk, halted,
                   lastTrap, envVars, dirlog, assoc, received>>

\* the end of the trap chain: no remaining test matches the program counter
\* (or the trap layer is off); cpu.execute_instruction comes next
TrapsDone ==
    /\ phase = "trap" /\ ~halted
    /\ ~(enable_hostfs /\ pc \in Handled /\ chk <= ChainIndex(pc))
    /\ phase' = "exec" /\ chk' = 1
    /\ UNCHANGED <<mem, cpuVars, ioVars, fsVars, halted, lastTrap, iter,
                   envVars, histVars>>

\* The guest program.  cpu.execute_instruction is the decoder's; a step of the
\* guest is taken here to be a call sequence: from the caller's stack level
\* the three arguments are pushed and the entry is called with the return
\* address ret.
StackBase == 11 * U16
Caller    == 4 * U16 + 4096

GuestCall(c) ==
    LET s0 == EnvRec(mem, StackBase, c.ret)
        s3 == push(push(push(s0, c.a3), c.a2), c.a1)
    IN  subroutine_call(s3, c.entry)

Call(entry, ret, a1, a2, a3) ==
    [entry |-> entry, ret |-> ret, a1 |-> a1, a2 |-> a2, a3 |-> a3]

\* cpu.execute_instruction, for a guest that makes one of the calls
ExecuteCall(calls, bound) ==
    /\ phase = "exec" /\ ~halted
    /\ instructions_executed < bound
    /\ \E c \in calls :
        LET st == GuestCall(c)
        IN  mem' = st.mem /\ SP' = st.SP /\ pc' = st.pc
    /\ instructions_executed' = instructions_executed + 1
    /\ phase' = "uart"
    /\ iter' = NoIter
    /\ UNCHANGED <<HL, adl, mbase, ioVars, fsVars, chk, halted, lastTrap,
                   envVars, histVars>>

----------------------------------------------------------------------------
(* SpecDir: the loop with a guest that calls the directory traps.          *)

MaxDirCalls == 6    \* guest calls in SpecDir

DIR1  == 4 * U16 + 768
DIR2  == 4 * U16 + 1024
INFO1 == 4 * U16 + 1280

DirCalls ==
    {Call(f_opendir, Caller, DIR1, StrPtr(str), 0) :
        str \in {<<100>>, <<110>>, <<102>>}}
    \cup {Call(f_readdir, Caller, d, INFO1, 0) : d \in {DIR1, DIR2}}
    \cup {Call(f_closedir, Caller, DIR1, 0, 0)}
    \cup {Call(f_chdir, Caller, StrPtr(str), 0, 0) :
            str \in {<<100>>, DotDot, <<110>>, <<102>>, <<101>>,
                     <<46, 46, 47, 46, 46>>}}
    \cup {Call(f_mount, Caller, 0, 0, 0)}
    \cup {Call(f_getlabel, Caller, 0, INFO1, 0)}

ExecuteDir == ExecuteCall(DirCalls, MaxDirCalls)

NextDir ==
    \/ LoadMos
    \/ PollUart
    \/ PollVsync
    \/ hostfs_mos_f_opendir
    \/ hostfs_mos_f_readdir
    \/ hostfs_mos_f_closedir
    \/ hostfs_mos_f_chdir
    \/ hostfs_mos_f_mount
    \/ hostfs_mos_f_getlabel
    \/ TrapsDone
    \/ ExecuteDir

SpecDir == InitLoop /\ [][NextDir]_vars

----------------------------------------------------------------------------
(* SpecFile: the loop with a guest that calls the file traps.              *)

MaxFileCalls == 4    \* guest calls in SpecFile

FIL0 == 2 * U16 + 512    \* a structure in the read-only region
FIL1 == 4 * U16 + 1792
FIL2 == 4 * U16 + 2048
BUF  == 4 * U16 + 2304

FileCalls ==
    {Call(f_open, Caller, fil, StrPtr(str), mode) :
        fil \in {FIL1, FIL2}, str \in {<<102>>, <<110>>}, mode \in {1, 4, 6}}
    \cup {Call(f_open, Caller, FIL1, StrPtr(<<120, 47, 110>>), 6)}
    \cup {Call(f_open, Caller, FIL2, StrPtr(<<100, 47, 103>>), 1)}
    \cup {Call(f_open, Caller, FIL0, StrPtr(<<102>>), 1)}
    \cup {Call(f_read, Caller, FIL0, BUF, 2)}
    \cup {Call(f_close, Caller, fil, 0, 0) : fil \in {FIL1, FIL2}}
    \cup {Call(f_read, Caller, fil, BUF, 2) : fil \in {FIL1, FIL2}}
    \cup {Call(f_gets, Caller, BUF, 4, fil) : fil \in {FIL1, FIL2}}
    \cup {Call(f_gets, Caller, BUF, 1, FIL1)}
    \cup {Call(f_write, Caller, FIL1, StrPtr(<<102>>), n) : n \in {0, 2}}
    \* a call whose return address is the entry of another trapped routine
    \cup {Call(f_close, f_gets, Caller, BUF, 4)}
    \* a call whose return address is zero
    \cup {Call(f_close, 0, FIL1, 0, 0)}

ExecuteFile == ExecuteCall(FileCalls, MaxFileCalls)

NextFile ==
    \/ LoadMos
    \/ PollUart
    \/ PollVsync
    \/ hostfs_mos_f_close
    \/ hostfs_mos_f_gets
    \/ hostfs_mos_f_read
    \/ hostfs_mos_f_open
    \/ hostfs_mos_f_write
    \/ TrapsDone
    \/ ExecuteFile

SpecFile == InitLoop /\ [][NextFile]_vars

----------------------------------------------------------------------------
(* SpecIrq: the loop with the peripheral's channel and the vsync counter,  *)
(* and a guest that spins and, in its receive handler, reads the UART.     *)

MaxSend     == 2       \* bytes the peripheral sends
MaxTicks    == 2       \* increments of the vsync counter
MaxIrqSteps == 1026    \* instructions executed in SpecIrq

\* the other end of the channel: the peripheral's thread sends a byte
PeripheralSend ==
    /\ sent < MaxSend /\ ~halted
    /\ rx' = Append(rx, 65 + sent)
    /\ sent' = sent + 1
    /\ UNCHANGED <<mem, cpuVars, rx_buf, vsync_counter, last_vsync_count,
                   ticks, fsVars, loopVars, envVars, histVars>>

\* the timer's thread: a fetch_add on the shared 32-bit counter
TimerTick ==
    /\ ticks < MaxTicks /\ ~halted
    /\ vsync_counter' = wrapping_add(vsync_counter, 1)
    /\ ticks' = ticks + 1
    /\ UNCHANGED <<mem, cpuVars, rx, rx_buf, last_vsync_count, sent,
                   fsVars, loopVars, envVars, histVars>>

port_in_keeps_buf(address) ==
    LET f == maybe_fill_rx_buf
    IN  IF address = 192
        THEN [data |-> IF f.buf = None THEN 0 ELSE f.buf[1],
              buf |-> f.buf, chan |-> f.chan]
        ELSE IF address = 197
        THEN [data |-> IF f.buf = None THEN 64 ELSE 65,
              buf |-> f.buf, chan |-> f.chan]
        ELSE [data |-> 0, buf |-> rx_buf, chan |-> rx]

\* AgonMachine::port_in: the byte read, the buffer and the channel it leaves
port_in(address) ==
    LET f == maybe_fill_rx_buf
    IN  IF address = 192
        THEN [data |-> IF f.buf = None THEN 0 ELSE f.buf[1],
              buf |-> None, chan |-> f.chan]
        ELSE IF address = 197
        THEN [data |-> IF f.buf = None THEN 64 ELSE 65,
              buf |-> f.buf, chan |-> f.chan]
        ELSE [data |-> 0, buf |-> rx_buf, chan |-> rx]

\* the bytes taken so far by reads of the receive-data port: a read takes a
\* byte when one is buffered or queued
LogPortIn(address, data) ==
    IF address = 192 /\ rx_buf \o rx # <<>>
    THEN Append(received, data)
    ELSE received

\* The guest of SpecIrq: JR $ at the reset address and at the vsync vector;
\* at the receive vector IN0 A,(0C5h), IN0 A,(0C0h), JR $.
IrqImage ==
    <<24, 254>> \o [i \in 1..22 |-> 0]
    \o <<237, 56, 197, 237, 56, 192, 24, 254>>
    \o [i \in 1..18 |-> 0]
    \o <<24, 254>>

LoadIrq == load_mos({IrqImage})

\* cpu.execute_instruction for the instructions of that guest: NOP, JR e and
\* IN0 A,(n)
ExecuteIrq ==
    /\ phase = "exec" /\ ~halted
    /\ instructions_executed < MaxIrqSteps
    /\ LET op == peek(mem, pc)
           e == peek(mem, pc + 1)
           n == peek(mem, pc + 2)
       IN  \/ /\ op = 0
              /\ pc' = (pc + 1) % U24
              /\ UNCHANGED <<rx, rx_buf, last, received, vsyncs>>
           \/ /\ op = 24
              /\ pc' = (pc + 2 + (IF e >= 128 THEN e - 256 ELSE e)) % U24
              /\ UNCHANGED <<rx, rx_buf, last, received, vsyncs>>
           \/ /\ op = 237 /\ e = 56
              /\ pc' = (pc + 3) % U24
              /\ rx_buf' = port_in(n).buf
              /\ rx' = port_in(n).chan
              /\ last' = Op("port_in", n, 0, port_in(n).data)
              /\ received' = LogPortIn(n, port_in(n).data)
              /\ vsyncs' = vsyncs
    /\ instructions_executed' = instructions_executed + 1
    /\ phase' = "uart"
    /\ iter' = NoIter
    /\ UNCHANGED <<mem, SP, HL, adl, mbase, vsync_counter, last_vsync_count,
                   sent, ticks, fsVars, chk, halted, lastTrap, bus, prev,
                   dirlog, assoc>>

NextIrq ==
    \/ LoadIrq
    \/ PeripheralSend
    \/ TimerTick
    \/ PollUart
    \/ PollVsync
    \/ TrapsDone
    \/ ExecuteIrq

SpecIrq == InitLoop /\ [][NextIrq]_vars

----------------------------------------------------------------------------
(* SpecUart: the loop with the peripheral's channel and guests that read   *)
(* the UART ports all the time.                                            *)

UartPorts == {192, 197}

\* The guests of SpecUart: IN0 A,(p), JR $-3 at the reset address and
\* IN0 A,(q), JR $-3 at the receive vector.
UartImage(p, q) ==
    <<237, 56, p, 24, 251>> \o [i \in 1..19 |-> 0] \o <<237, 56, q, 24, 251>>

LoadUart == load_mos({UartImage(p, q) : p \in UartPorts, q \in UartPorts})

NextUart ==
    \/ LoadUart
    \/ PeripheralSend
    \/ PollUart
    \/ PollVsync
    \/ TrapsDone
    \/ ExecuteIrq

SpecUart == InitLoop /\ [][NextUart]_vars

----------------------------------------------------------------------------
(* SpecRom: the loop with a guest that aims its stores, its stack and the  *)
(* structures and buffers of its trapped calls at the read-only region,    *)
(* and a peripheral whose bytes raise interrupts.                          *)

MaxRomSteps == 3    \* instructions executed in SpecRom

ROMBUF == 2 * U16 + 1024    \* a buffer in the read-only region
RomTop == ROM_SIZE - 2      \* the last two bytes of the read-only region

RomCalls ==
    {Call(f_open, Caller, FIL0, StrPtr(<<102>>), 6),
     Call(f_read, Caller, FIL0, ROMBUF, 2),
     Call(f_gets, Caller, ROMBUF, 4, FIL0),
     Call(f_write, Caller, FIL0, StrPtr(<<102>>), 2),
     Call(f_opendir, Caller, FIL0, StrPtr(<<100>>), 0),
     Call(f_readdir, Caller, FIL0, ROMBUF, 0),
     Call(f_getlabel, Caller, 0, ROMBUF, 0)}

ExecuteRom == ExecuteCall(RomCalls, MaxRomSteps)

\* cpu.execute_instruction, for a guest that stores a byte, a word or three
\* bytes at an address, or sets its stack pointer and pushes
ExecuteStore ==
    /\ phase = "exec" /\ ~halted
    /\ instructions_executed < MaxRomSteps
    /\ \E a \in {16, RomTop} :
        \E st \in {sys_poke(EnvHere, a, 171),
                   poke16(EnvHere, a, 4660),
                   poke24(EnvHere, a, 1193046),
                   push(EnvRec(mem, a + 3, pc), 1193046)} :
            mem' = st.mem /\ SP' = st.SP /\ pc' = st.pc
    /\ instructions_executed' = instructions_executed + 1
    /\ phase' = "uart"
    /\ iter' = NoIter
    /\ UNCHANGED <<HL, adl, mbase, ioVars, fsVars, chk, halted, lastTrap,
                   envVars, histVars>>

NextRom ==
    \/ LoadMos
    \/ PeripheralSend
    \/ PollUart
    \/ PollVsync
    \/ hostfs_mos_f_gets
    \/ hostfs_mos_f_read
    \/ hostfs_mos_f_open
    \/ hostfs_mos_f_write
    \/ hostfs_mos_f_getlabel
    \/ hostfs_mos_f_opendir
    \/ hostfs_mos_f_readdir
    \/ TrapsDone
    \/ ExecuteRom
    \/ ExecuteStore

SpecRom == InitLoop /\ [][NextRom]_vars

----------------------------------------------------------------------------
(* Claims about the Environment and the memory (checked under SpecEnv).    *)

Bank(a)  == a \div U16
Low16(a) == a % U16
InRam(a) == a >= 262144 /\ a <= 786431

\* C4: push(value) followed by pop() in the same mode returns value and
\* leaves the stack pointer where it was.  Stated here for the cases the claim
\* can be meant for only: the value fits the width of the mode and the bytes
\* pushed lie in the writable region.
C4_PushPopRoundTrip ==
    LET width == IF prev.long THEN 3 ELSE 2
    IN  ( /\ last.op = "pop" /\ prev.op = "push"
          /\ last.long = prev.long /\ last.mb = prev.mb
          /\ prev.val < (IF prev.long THEN U24 ELSE U16)
          /\ InRam(prev.addr - width) /\ InRam(prev.addr - 1) )
        => (last.res = prev.val /\ SP = prev.sp)

\* The round trip does work away from the start of a bank.
C4_RoundTripSeen ==
    /\ last.op = "pop" /\ prev.op = "push" /\ ~prev.long
    /\ last.res = prev.val /\ SP = prev.sp /\ prev.val = 4660

\* C5: in short mode the second and third byte of a 16-bit or 24-bit access
\* are at the address whose low 16 bits are incremented with wrap-around and
\* whose bank is unchanged; write16 at 0x01FFFF writes its high byte at
\* 0x010000 in short mode and at 0x020000 in long mode.
C5_Follows(a, b, k) == Bank(b) = Bank(a) /\ Low16(b) = (Low16(a) + k) % U16
C5_At(a, k) == Bank(a) * U16 + ((Low16(a) + k) % U16)

C5_ShortModeWrap ==
    /\ (last.op = "poke16" /\ ~last.long) =>
          /\ Len(bus) = 2
          /\ bus[1] = <<last.addr, last.val % 256>>
          /\ C5_Follows(last.addr, bus[2][1], 1)
          /\ bus[2][2] = last.val \div 256
    /\ (last.op = "poke24" /\ ~last.long) =>
          /\ Len(bus) = 3
          /\ bus[1] = <<last.addr, last.val % 256>>
          /\ C5_Follows(last.addr, bus[2][1], 1)
          /\ bus[2][2] = (last.val \div 256) % 256
          /\ C5_Follows(last.addr, bus[3][1], 2)
          /\ bus[3][2] = last.val \div 65536
    /\ (last.op = "peek16" /\ ~last.long) =>
          last.res = Load(mem, last.addr) + 256 * Load(mem, C5_At(last.addr, 1))
    /\ (last.op = "peek24" /\ ~last.long) =>
          last.res = Load(mem, last.addr) + 256 * Load(mem, C5_At(last.addr, 1))
                     + 65536 * Load(mem, C5_At(last.addr, 2))
    /\ (last.op = "poke16" /\ last.addr = 131071) =>
          /\ bus[1][1] = 131071
          /\ bus[2][1] = (IF last.long THEN 131072 ELSE 65536)

C5_WrapSeen ==
    /\ last.op = "poke16" /\ ~last.long /\ last.addr = 131071
    /\ bus = <<(<<131071, 52>>), (<<65536, 18>>)>>

\* C19: in long mode the address computed for the following byte of a
\* multi-byte access is again a 24-bit address, the increment wrapping across
\* the 24-bit space: the byte after 0xFFFFFF is at 0x000000.
C19_LongModeWrap ==
    /\ (last.op = "poke16" /\ last.long) =>
          /\ Len(bus) = 2
          /\ bus[2][1] < U24
          /\ bus[2][1] = (last.addr + 1) % U24
    /\ (last.op = "poke24" /\ last.long) =>
          /\ Len(bus) = 3
          /\ bus[2][1] = (last.addr + 1) % U24
          /\ bus[3][1] = (last.addr + 2) % U24

\* C26: with the default index selected, index_address() equals
\* index_value() in both operand modes: in long mode both are the 24-bit
\* value of the pointer register, in short mode both are its 16-bit value
\* combined with the bank base.
C26_DefaultIndex ==
    /\ (last.op = "index_address" /\ prev.op = "index_value") =>
          last.res = prev.res
    /\ (last.op = "index_address" /\ last.long) => last.res = HL % U24
    /\ (last.op = "index_address" /\ ~last.long) =>
          last.res = last.mb * U16 + (HL % U16)

\* C6: in the writable region a byte write followed by a byte read at the
\* same address returns the value written; at 0xC0000 and above a read
\* returns zero and a write changes no byte of the memory.
C6_ReadBack ==
    /\ (/\ last.op = "peek" /\ prev.op = "poke" /\ last.addr = prev.addr
        /\ InRam(last.addr)) => last.res = prev.val
    /\ (last.op = "peek" /\ last.addr >= 786432) => last.res = 0

C6_ByteAccess ==
    /\ []C6_ReadBack
    /\ [][(last'.op = "poke" /\ last'.addr >= 786432) => mem' = mem]_vars

C6_ReadBackSeen ==
    /\ last.op = "peek" /\ prev.op = "poke"
    /\ last.addr = 786431 /\ prev.addr = 786431
    /\ prev.val = 171 /\ last.res = 171

----------------------------------------------------------------------------
(* Claims about the directory traps (checked under SpecDir).               *)

\* what the host answers when the directory named by the opendir trap at
\* hand is opened
C8_Host ==
    read_dir(hostfs, PathJoin(hostfs_path, PathOf(get_cstring(mem, Arg(2)))))

\* C8: the opendir trap returns 0 in HL and registers an iterator under the
\* directory-structure address only when the host directory could be opened;
\* when the path does not exist it returns 4, for any other host error it
\* returns 1, and in both error cases no iterator is registered.
C8_OpendirErrors ==
    [][TrapMatched(f_opendir) =>
         /\ (C8_Host.err = "Ok" =>
                 HL' = 0 /\ Arg(1) \in DOMAIN open_dirs')
         /\ (C8_Host.err = "NotFound" =>
                 HL' = 4 /\ open_dirs' = open_dirs)
         /\ (C8_Host.err \notin {"Ok", "NotFound"} =>
                 HL' = 1 /\ open_dirs' = open_dirs)]_vars

\* what a handle's history must look like after its readdir traps
C9_Sequence(l) ==
    LET n == Cardinality(l.entries)
    IN  /\ l.ok /\ l.tailOk
        /\ l.names \subseteq l.entries
        /\ Cardinality(l.names) = (IF l.calls < n THEN l.calls ELSE n)

C10_Missing(cd_to) ==
    Resolve(hostfs,
            PathJoin(current_dir,
                     PathJoin(hostfs_current_dir, PathOf(cd_to)))).err
        = "NotFound"

\* C10: the chdir trap with argument ".." from a non-root emulated current
\* directory removes exactly the last segment of the current directory; the
\* chdir trap with a path that does not exist returns 4 in HL and leaves the
\* emulated current directory unchanged.
C10_Chdir ==
    [][TrapMatched(f_chdir) =>
         LET cd_to == get_cstring(mem, Arg(1))
             segs == hostfs_current_dir.segs
         IN  /\ (cd_to = DotDot /\ segs # <<>>) =>
                    /\ hostfs_current_dir'.segs = SubSeq(segs, 1, Len(segs) - 1)
                    /\ hostfs_current_dir'.abs = hostfs_current_dir.abs
                    /\ HL' = 0
             /\ (cd_to # DotDot /\ C10_Missing(cd_to)) =>
                    /\ HL' = 4
                    /\ hostfs_current_dir' = hostfs_current_dir]_vars

\* chdir("..") has just been made from d/e: the current directory is d
C10_ParentSeen ==
    /\ lastTrap.name = "chdir"
    /\ get_cstring(mem, lastTrap.a1) = DotDot
    /\ hostfs_current_dir.segs = << <<100>> >>
    /\ HL = 0

\* C15: after any sequence of traps the emulated current directory is a
\* relative path that resolves to an existing directory inside the working
\* directory of the process, and it is changed only by a chdir trap that
\* returns 0.
C15_CurrentDir ==
    /\ [](LET r == Resolve(hostfs, PathJoin(current_dir, hostfs_current_dir))
               cwd == current_dir.segs
           IN  /\ ~hostfs_current_dir.abs
               /\ r.err = "Ok" /\ hostfs[r.path].dir
               /\ Len(r.path) >= Len(cwd)
               /\ SubSeq(r.path, 1, Len(cwd)) = cwd)
    /\ [][hostfs_current_dir' # hostfs_current_dir =>
              (TrapMatched(f_chdir) /\ HL' = 0)]_vars

\* C23: a trap that returns a non-zero error code in HL leaves guest memory,
\* both handle tables and the emulated current directory exactly as they were
\* before the trap (HL, the stack pointer and the program counter aside).
C23_Failed ==
    /\ phase = "trap" /\ Len(iter'.traps) = Len(iter.traps) + 1
    /\ HL' % U24 # 0

C23_ErrorFrame ==
    [][C23_Failed =>
          /\ mem' = mem
          /\ open_files' = open_files
          /\ open_dirs' = open_dirs
          /\ hostfs_current_dir' = hostfs_current_dir]_vars

----------------------------------------------------------------------------
(* Claims about the trap layer and the file traps (checked under SpecFile). *)

\* C1: when the trap layer is enabled and the program counter at the trap
\* check of an iteration is the entry of a handled call, the handler runs and
\* ends with a forced return: before the next instruction is executed the
\* program counter is the return address that was on top of the stack at
\* entry and the stack pointer has moved past it.
C1_ForcedReturn ==
    phase = "exec" =>
        /\ (enable_hostfs /\ iter.atCheck \in Handled) =>
               /\ iter.traps # <<>>
               /\ iter.traps[1].entry = iter.atCheck
        /\ iter.traps # <<>> =>
               /\ pc = iter.traps[1].ret
               /\ SP = iter.traps[1].sp + 3

\* C22: in a single iteration of the main loop at most one trap handler is
\* dispatched, and so at most one forced return is made, whatever return
\* address the stack holds.
C22_OneTrap == Len(iter.traps) <= 1

\* the addresses that have been opened and not closed since
C3_Opened == {fptr \in DOMAIN assoc : assoc[fptr] = "open"}

\* C3: a file-structure address is associated with a host file exactly when
\* its most recent successful open trap has not been followed by a close
\* trap on it, and with one file only; read, write and gets traps on an
\* address that is not associated return 1.
C3_Handles ==
    /\ [](/\ DOMAIN open_files = C3_Opened
          /\ \A fptr \in DOMAIN open_files :
                 open_files[fptr].path \in DOMAIN hostfs)
    /\ [][/\ (TrapMatched(f_read) /\ Arg(1) \notin C3_Opened) => HL' = 1
          /\ (TrapMatched(f_write) /\ Arg(1) \notin C3_Opened) => HL' = 1
          /\ (TrapMatched(f_gets) /\ Arg(3) \notin C3_Opened) => HL' = 1]_vars

\* a read trap has returned 1 on an address that was opened and then closed,
\* while another address is still open
C3_ClosedSeen ==
    /\ lastTrap.name = "read" /\ HL = 1
    /\ lastTrap.a1 \in DOMAIN assoc /\ assoc[lastTrap.a1] = "closed"
    /\ C3_Opened # {}

\* the path of the open trap at hand names nothing, in a directory that exists
C7_Missing ==
    LET p == open_path(get_cstring(mem, Arg(2)))
        parent == Resolve(hostfs, PathPop(p))
    IN  /\ Resolve(hostfs, p).err = "NotFound"
        /\ parent.err = "Ok" /\ hostfs[parent.path].dir

C7_Create == bitand(Arg(3), FA_CREATE_NEW) # 0

\* C7: the open trap on a path that does not exist returns 4 and registers
\* no handle when the create flag is clear; when the create flag is set it
\* returns 0 and registers a handle under the structure address, whatever
\* the other mode bits.
C7_OpenMissing ==
    [][(TrapMatched(f_open) /\ C7_Missing) =>
          /\ ~C7_Create => (HL' = 4 /\ open_files' = open_files)
          /\ C7_Create => (HL' = 0 /\ Arg(1) \in DOMAIN open_files')]_vars

\* C11: every write trap on a registered handle with requested count n
\* returns 0 in HL, and the 24-bit value the guest finds at the out-parameter
\* address (the pointer read from the count argument slot) equals n.
C11_WrittenCount ==
    [][(TrapMatched(f_write) /\ Arg(1) \in DOMAIN open_files) =>
          /\ lastTrap'.name = "write" /\ HL' = 0
          /\ _peek24(mem', Arg(3)) = Arg(3)]_vars

\* the bytes of data from position pos up to and including the first newline
\* or NUL, and at most count of them
C12_Line(data, pos, count) ==
    LET avail == SubSeq(data, pos + 1, Min(Len(data), pos + count))
        stops == {i \in 1..Len(avail) : avail[i] = 10 \/ avail[i] = 0}
    IN  IF stops = {} THEN avail
        ELSE SubSeq(avail, 1, CHOOSE i \in stops : \A j \in stops : i <= j)

\* C12: the gets trap on a registered handle writes to the destination buffer
\* exactly the bytes of the file from its current position, stopping after
\* the first newline or NUL or after max-length bytes, then one terminating
\* NUL, and sets the position field to the new position; also when the end of
\* the file is reached first.
C12_GetsLine ==
    [][(TrapMatched(f_gets) /\ Arg(3) \in DOMAIN open_files
          /\ ~hostfs[open_files[Arg(3)].path].dir) =>
          LET f == open_files[Arg(3)]
              line == C12_Line(hostfs[f.path].data, f.pos, Arg(2))
          IN  /\ HL' = 0
              /\ \A i \in 1..Len(line) : peek(mem', Arg(1) + i - 1) = line[i]
              /\ peek(mem', Arg(1) + Len(line)) = 0
              /\ _peek24(mem', Arg(3) + FIL_MEMBER_FPTR) = f.pos + Len(line)
              /\ open_files'[Arg(3)].pos = f.pos + Len(line)]_vars

\* C24: a read trap with requested length n on a file that has only k < n
\* bytes left changes only the k destination bytes read and the position
\* field: guest memory from dest+k up to dest+n-1 is left unchanged.
C24_Left == Len(hostfs[open_files[Arg(1)].path].data) - open_files[Arg(1)].pos

C24_ShortRead ==
    [][(TrapMatched(f_read) /\ Arg(1) \in DOMAIN open_files
          /\ ~hostfs[open_files[Arg(1)].path].dir
          /\ C24_Left >= 0 /\ C24_Left < Arg(3)) =>
          \A a \in (Arg(2) + C24_Left)..(Arg(2) + Arg(3) - 1) :
              Load(mem', a) = Load(mem, a)]_vars

\* C25: the gets trap with maximum length m writes at most m bytes to the
\* destination buffer, the terminating NUL included: no guest byte at or
\* beyond dest+m is changed by the line copy.
C25_Field(a) ==
    a \in (Arg(3) + FIL_MEMBER_FPTR)..(Arg(3) + FIL_MEMBER_FPTR + 2)

C25_GetsBound ==
    [][TrapMatched(f_gets) =>
          \A a \in DOMAIN mem \cup DOMAIN mem' :
              (a >= Arg(1) + Arg(2) /\ ~C25_Field(a)) =>
                  Load(mem', a) = Load(mem, a)]_vars

\* the handler at hand has made its forced return (it has not panicked)
C13_Returned == chk' # chk

\* the structure at fptr lies in the writable region
C20_Writable(fptr) == InRam(fptr) /\ InRam(fptr + SIZEOF_MOS_FIL_STRUCT - 1)

\* the structure at fptr in memory m is zero except for its size field, which
\* holds len capped to 0x80000
C20_Structure(m, fptr, len) ==
    /\ \A i \in 0..(SIZEOF_MOS_FIL_STRUCT - 1) :
           i \notin {11, 12, 13} => peek(m, fptr + i) = 0
    /\ _peek24(m, fptr + FIL_MEMBER_OBJSIZE) = Min(len, 524288)

\* file lengths around the cap and beyond 24 bits
C20_Lengths == {0, 3, 524287, 524288, 524289, 16777221}

\* the size the open handler stores for a file of length len, as the guest
\* reads it
C20_StoredSize(len) ==
    _peek24(_poke24(<<>>, FIL1 + FIL_MEMBER_OBJSIZE, open_file_len(len)),
            FIL1 + FIL_MEMBER_OBJSIZE)

\* this step is a successful open trap
C20_Opened == TrapMatched(f_open) /\ C13_Returned /\ HL' = 0

\* the length of the file the open trap at hand has opened
C20_Length == Len(hostfs'[open_files'[Arg(1)].path].data)

\* C20 as written: after a successful open trap every byte of the structure
\* is zero except the size field, which holds the length of the file capped
\* to 0x80000, and the handle is registered under the structure address,
\* whatever that address.
C20_OpenAnyStructure ==
    [][C20_Opened =>
          /\ Arg(1) \in DOMAIN open_files'
          /\ C20_Structure(mem', Arg(1), C20_Length)]_vars

\* C20, amended: the handle is registered, and when the structure lies in
\* the writable region it is zero except for the size field, which holds the
\* capped length; a structure in the read-only region is left as it was.
C20_OpenStructure ==
    /\ \A len \in C20_Lengths : C20_StoredSize(len) = Min(len, 524288)
    /\ [][C20_Opened =>
             /\ Arg(1) \in DOMAIN open_files'
             /\ C20_Writable(Arg(1)) =>
                    C20_Structure(mem', Arg(1), C20_Length)
             /\ ~C20_Writable(Arg(1)) =>
                    \A i \in 0..(SIZEOF_MOS_FIL_STRUCT - 1) :
                        peek(mem', Arg(1) + i) = peek(mem, Arg(1) + i)]_vars

\* the third call of the guest has opened the file f (3 bytes) on a
\* structure in the writable region, after bytes of a file were read to the
\* buffer: the structure is zero but for its size field, which holds 3
C20_OpenedSeen ==
    /\ phase = "trap" /\ lastTrap.name = "open" /\ HL = 0
    /\ iter.traps # <<>>
    /\ lastTrap.a1 = FIL1 /\ FIL1 \in DOMAIN open_files
    /\ open_files[FIL1].path = << <<119>>, <<102>> >>
    /\ instructions_executed = 3
    /\ peek(mem, BUF) # 0
    /\ C20_Structure(mem, FIL1, 3)

\* the checksum load_mos computes over the loaded image is not the pinned one
C18_Mismatch == checksum(mem, 0, 3 + Len(MosBody)) # 12649176

\* C18: when the checksum of the loaded image differs from the pinned value
\* the trap layer is off for the whole run: in every later iteration,
\* whatever the program counter, no handler runs and no forced return is
\* made (the trap check leaves registers and memory alone), the handle
\* tables stay empty and the layer is not enabled again.
C18_LayerOff ==
    /\ []((phase # "load" /\ C18_Mismatch) =>
              /\ ~enable_hostfs
              /\ open_files = <<>> /\ open_dirs = <<>>
              /\ iter.traps = <<>> /\ lastTrap = NoTrap)
    /\ [][(phase = "trap" /\ C18_Mismatch) =>
              /\ phase' = "exec"
              /\ UNCHANGED <<mem, pc, SP, HL, fsVars>>]_vars

\* with the layer off the guest has called f_open: the entry was the program
\* counter at the trap check and is still the program counter at the
\* instruction
C18_UntrappedSeen ==
    /\ C18_Mismatch /\ ~enable_hostfs
    /\ phase = "exec" /\ iter.atCheck = f_open /\ pc = f_open
    /\ instructions_executed = 2

\* this step is the forced return of a trap handler
C17_Return ==
    /\ phase = "trap" /\ phase' = "trap" /\ chk' # chk

\* the value the return pops: the three bytes at the stack pointer, in the
\* memory the handler leaves
C17_Popped == pop(EnvRec(mem', SP, pc)).value

\* C17: the forced return that ends a trap handler aborts the emulator
\* exactly when the value popped from the stack is zero, and otherwise sets
\* the program counter to the popped value and goes on; the loop stops in no
\* other return.
C17_ReturnToZero ==
    [][C17_Return =>
          /\ halted' = (C17_Popped = 0)
          /\ C17_Popped # 0 => (pc' = C17_Popped /\ SP' = SP + 3)]_vars

\* the close handler has popped a zero return address: the emulator has
\* stopped
C17_ZeroSeen ==
    /\ halted /\ lastTrap.name = "close" /\ lastTrap.ret = 0
    /\ iter.traps # <<>> /\ phase = "trap"


\* the position field of the structure at fptr, read as the guest reads it
C13_Field(m, fptr) == _peek24(m, fptr + FIL_MEMBER_FPTR)

\* what the claim says of a successful trap on a registered handle: the
\* position of the host file is 0 after open and advanced by the bytes
\* transferred after read, write and gets
C13_HostPosition ==
    /\ (TrapMatched(f_open) /\ C13_Returned /\ HL' = 0) =>
           open_files'[Arg(1)].pos = 0
    /\ (TrapMatched(f_read) /\ C13_Returned /\ Arg(1) \in DOMAIN open_files) =>
           LET f == open_files[Arg(1)]
               left == Len(hostfs[f.path].data) - f.pos
           IN  open_files'[Arg(1)].pos =
                   f.pos + (IF left < 0 THEN 0 ELSE Min(Arg(3), left))
    /\ (TrapMatched(f_write) /\ C13_Returned
          /\ Arg(1) \in DOMAIN open_files) =>
           open_files'[Arg(1)].pos = open_files[Arg(1)].pos + Arg(3)
    /\ (TrapMatched(f_gets) /\ C13_Returned /\ Arg(3) \in DOMAIN open_files) =>
           LET f == open_files[Arg(3)]
           IN  open_files'[Arg(3)].pos =
                   f.pos + Len(C12_Line(hostfs[f.path].data, f.pos, Arg(2)))

\* the structure of the successful trap at hand, if there is one
C13_Structure ==
    IF TrapMatched(f_gets) THEN Arg(3) ELSE Arg(1)

C13_Success ==
    /\ C13_Returned /\ HL' = 0
    /\ \/ TrapMatched(f_open)
       \/ TrapMatched(f_read) /\ Arg(1) \in DOMAIN open_files
       \/ TrapMatched(f_write) /\ Arg(1) \in DOMAIN open_files
       \/ TrapMatched(f_gets) /\ Arg(3) \in DOMAIN open_files

C13_ReadUnknown ==
    (TrapMatched(f_read) /\ Arg(1) \notin DOMAIN open_files) => HL' = 1

----------------------------------------------------------------------------
(* Claims about the injection of interrupts (checked under SpecIrq).       *)

\* the vectors injected in an iteration, given whether the receive interrupt
\* and the vsync interrupt are due
C2_Vectors(receive, vsync) ==
    (IF receive THEN <<24>> ELSE <<>>) \o (IF vsync THEN <<50>> ELSE <<>>)

\* an interrupt is injected by this step: a call of one of the two vectors
C2_Injection ==
    /\ pc' \in {24, 50} /\ pc' # pc
    /\ SP' = SP - 3

\* interrupts are injected by the two polls of the loop only, which come
\* before the trap check and the instruction of the iteration
C2_OnlyAtPolls ==
    [][C2_Injection => (phase \in {"uart", "vsync"}
                        /\ phase' \in {"vsync", "trap"}
                        /\ iter'.irq = Append(iter.irq, pc'))]_vars

----------------------------------------------------------------------------
(* Claims about the UART ports (checked under SpecUart).                   *)

\* the bytes the peripheral has sent, in the order sent
C14_Sent == [i \in 1..sent |-> 65 + (i - 1)]

\* the bytes waiting for the guest: the buffered one, then the queued ones
C14_Pending == rx_buf \o rx

\* this step executes an instruction of the guest, a read of port n
\* the step in which the loop samples the vsync counter
C27_Poll == phase = "vsync" /\ phase' = "trap"

C27_Vsyncs(irq) == Cardinality({i \in 1..Len(irq) : irq[i] = 50})

\* C27: under every interleaving of the timer's increments with the main
\* loop, a vsync interrupt is injected in an iteration exactly when the
\* counter value sampled in it differs from the last value the loop observed,
\* at most once per iteration; the interrupts injected never outnumber the
\* increments, several increments between two polls give one interrupt, and
\* an increment leaves the counter different from the observed value until the
\* next poll, which therefore injects an interrupt.
C27_VsyncInjection ==
    /\ [][C27_Poll =>
            /\ (vsyncs' = vsyncs + 1) <=> (vsync_counter # last_vsync_count)
            /\ (vsyncs' = vsyncs) <=> (vsync_counter = last_vsync_count)
            /\ C27_Vsyncs(iter'.irq) = vsyncs' - vsyncs
            /\ (vsyncs' # vsyncs) => pc' = 50
            /\ last_vsync_count' = vsync_counter]_vars
    /\ [][~C27_Poll =>
            /\ vsyncs' = vsyncs
            /\ last_vsync_count' = last_vsync_count
            /\ C27_Vsyncs(iter'.irq) <= C27_Vsyncs(iter.irq)]_vars
    /\ [](C27_Vsyncs(iter.irq) <= 1 /\ vsyncs <= ticks)
    /\ [][ticks' # ticks => vsync_counter' # last_vsync_count']_vars
    /\ [][(vsync_counter # last_vsync_count /\ ~C27_Poll) =>
              vsync_counter' # last_vsync_count']_vars

\* two increments between two polls have given a single interrupt
C27_CoalescedSeen ==
    /\ phase = "trap" /\ iter.vsyncChanged
    /\ ticks = 2 /\ last_vsync_count = 2 /\ vsyncs = 1

C14_Reads(n) ==
    /\ phase = "exec" /\ instructions_executed' # instructions_executed
    /\ peek(mem, pc) = 237 /\ peek(mem, pc + 1) = 56 /\ peek(mem, pc + 2) = n

\* C14: every byte the peripheral sends is returned by exactly one read of
\* the receive-data port, in the order sent, under every interleaving of
\* sends, port reads and interrupt polls: the bytes returned so far followed
\* by the bytes pending are the bytes sent.  Only a read of the receive-data
\* port takes a byte, the first one pending; with nothing pending it
\* returns 0.
C14_Delivery ==
    /\ [](received \o C14_Pending = C14_Sent)
    /\ [][IF C14_Reads(192)
          THEN IF C14_Pending = <<>>
               THEN /\ last'.res = 0
                    /\ C14_Pending' = <<>> /\ received' = received
               ELSE /\ last'.res = Head(C14_Pending)
                    /\ C14_Pending' = Tail(C14_Pending)
                    /\ received' = Append(received, Head(C14_Pending))
          ELSE /\ received' = received
               /\ C14_Pending' = IF sent' = sent THEN C14_Pending
                                 ELSE Append(C14_Pending, 65 + sent)]_vars

\* both bytes have been returned in the order sent, the line status has been
\* read, and a later read of the receive-data port has returned 0
C14_DrainedSeen ==
    /\ received = <<65, 66>> /\ sent = 2
    /\ C14_Pending = <<>>
    /\ last.op = "port_in" /\ last.addr = 192 /\ last.res = 0
    /\ peek(mem, 2) = 197

----------------------------------------------------------------------------
(* Claims about the read-only region (checked under SpecRom).              *)

\* the read-only region of a memory: its cells below 0x40000
C16_Rom(m) == [a \in {x \in DOMAIN m : x < ROM_SIZE} |-> m[a]]

\* C16: once the firmware image is loaded, no guest store, stack push,
\* interrupt injection or memory write of a trap handler changes a byte of
\* the read-only region.
C16_RomKept ==
    [][phase # "load" => C16_Rom(mem') = C16_Rom(mem)]_vars

\* a read trap has copied two bytes of a file to a buffer in the read-only
\* region and stored the position in a structure there, after an interrupt
\* was injected with the stack in the read-only region; the region holds
\* the firmware image
C16_DiscardedSeen ==
    /\ lastTrap.name = "read" /\ HL = 0 /\ iter.traps # <<>>
    /\ lastTrap.a1 = FIL0 /\ lastTrap.a2 = ROMBUF
    /\ open_files[FIL0].pos = 2
    /\ rx_buf # None
    /\ C16_Rom(mem) = LoadImage(<<>>, MosSupported)

----------------------------------------------------------------------------
(* Claims about the memory tools (checked under SpecSum).                  *)

\* the bytes of the range of a checksum that was computed
C21_Range(o) == [i \in 1..o.val |-> peek(mem, o.addr + i - 1)]

\* C21: the checksum of a range is 0 when the length is 0 and is determined
\* by the bytes inside the range only: two ranges that hold the same byte
\* sequence, at the same or at different start addresses, have the same
\* checksum.
C21_RangeOnly ==
    /\ (last.op = "checksum" /\ last.val = 0) => last.res = 0
    /\ (last.op = "checksum" /\ prev.op = "checksum"
          /\ C21_Range(last) = C21_Range(prev)) => last.res = prev.res

====
